---- MODULE Spec2Model ----
(***************************************************************************)
(* The video-job lifecycle of the YouTube automation backend (main.py):    *)
(* generate_content, generate_tts, generate_thumbnail and upload_youtube   *)
(* acting on the "videojob" collection of the document store.              *)
(*                                                                         *)
(* Strings the handlers inspect or build (niche, URLs, file paths) are     *)
(* sequences of tokens, so that strip, startswith, lstrip and the URL      *)
(* formats are computed.  Python's None is the value None, a token         *)
(* sequence that no string of the program equals; an Optional[int] is None *)
(* or Some(v).                                                             *)
(***************************************************************************)
EXTENDS Integers, Sequences, FiniteSets, TLC

\* ---- bounds ----
MaxJobs == 2

None == <<"<None>">>
Some(v) == <<"int", v>>

\* ---- inputs of the requests ----
Niches == { <<>>, <<" ">>, <<" ", "ai", " ">> }
Styles == { None, <<"news">> }
KeywordInputs == { None, <<>> }
Durations == { None, Some(0), Some(10), Some(45), Some(10000) }
\* the generate inputs of the lifecycle specification: one job content
LifecycleNiches == { <<" ">>, <<" ", "ai", " ">> }
LifecycleStyles == { None }
LifecycleKeywords == { None }
LifecycleDurations == { None }
\* the ids the upload API answers with
VideoIds == { "vidA" }
\* the job ids of the requests (an id not created yet is an unknown job)
ReqIds == 1..MaxJobs
\* what the external services answer
RenderResults == { "ok", "error" }
UploadResults == { "ok", "insert_error", "thumbnail_set_error" }

\* the listing specification: the jobs in the collection, and the limits asked
MaxStored == 102
Limits == { None, Some(-1), Some(0), Some(1), Some(2), Some(100), Some(101), Some(500) }

VARIABLES
    store,    \* the "videojob" collection: oid -> document
    req,      \* the last request handled
    resp,     \* its response: [code, body]
    calls,    \* the collaborator calls it made, in order
    pending   \* the requests that have read their job and not yet written

vars == <<store, req, resp, calls, pending>>

\* ---- the document store (module database), by the interface main.py uses:
\* create, get by id, and a field-level update of one document ----
\* a lookup that finds nothing (falsy)
NoDoc == [none |-> TRUE]

get_document_by_id(db, oid) == IF oid \in DOMAIN db THEN db[oid] ELSE NoDoc

create_document(db, doc) == db @@ ((Cardinality(DOMAIN db) + 1) :> doc)

new_id(db) == Cardinality(DOMAIN db) + 1

\* field-level update: only the named fields of the one document are written
update_document(db, oid, fields) ==
    IF oid \in DOMAIN db
    THEN [db EXCEPT ![oid] = [f \in DOMAIN db[oid] |->
              IF f \in DOMAIN fields THEN fields[f] ELSE db[oid][f]]]
    ELSE db

\* the documents in the order of their ids (direction < 0: descending), each
\* with its "_id", the first k of them
get_documents(db, direction, k) ==
    LET n == Cardinality(DOMAIN db)
    IN  [i \in 1..k |->
            LET oid == IF direction < 0 THEN n + 1 - i ELSE i
            IN  db[oid] @@ ("_id" :> oid)]

\* how many documents a query with the given limit returns: a positive limit
\* is a maximum; what a limit of zero or below means is up to the store
\* (nothing, everything, or its absolute value)
LimitCounts(db, limit) ==
    LET n == Cardinality(DOMAIN db)
    IN  IF limit >= 1 THEN { IF limit < n THEN limit ELSE n }
        ELSE { 0, IF -limit < n THEN -limit ELSE n, n }

\* ---- Python helpers ----
\* bool(x): None, the empty string or list, and the integer 0 are falsy
Truthy(x) == x # None /\ x # <<>> /\ x # Some(0)

\* x or d
Or(x, d) == IF Truthy(x) THEN x ELSE d

\* int(x) of an integer
Int_(x) == x[2]

RECURSIVE LStripWs(_)
LStripWs(s) == IF s # <<>> /\ Head(s) = " " THEN LStripWs(Tail(s)) ELSE s

RECURSIVE RStripWs(_)
RStripWs(s) ==
    IF s # <<>> /\ s[Len(s)] = " " THEN RStripWs(SubSeq(s, 1, Len(s) - 1)) ELSE s

\* a bug: the text is not stripped
StripNothing(s) == s

\* str.strip()
Strip(s) == RStripWs(LStripWs(s))

Min(a, b) == IF a < b THEN a ELSE b
Max(a, b) == IF a > b THEN a ELSE b

\* str(ObjectId)
JobIdStr(oid) == ToString(oid)

\* ---- schemas.VideoJob ----
VideoJob(niche, title, keywords, style, duration, outline, script, status) ==
    [ niche |-> niche, title |-> title, keywords |-> keywords, style |-> style,
      duration |-> duration, outline |-> outline, script |-> script,
      status |-> status,
      audio_url |-> None, thumbnail_url |-> None,
      youtube_url |-> None, upload_status |-> None ]

\* ---- file system paths and URLs of the generated assets ----
BASE_DIR == <<"<BASE_DIR>", "/">>

\* s.startswith("/static/")
StartsWithStatic(s) == Len(s) >= 2 /\ s[1] = "/" /\ s[2] = "static/"

\* s.lstrip("/")
RECURSIVE LStripSlash(_)
LStripSlash(s) == IF s # <<>> /\ Head(s) = "/" THEN LStripSlash(Tail(s)) ELSE s

\* os.path.join(BASE_DIR, rel) for a relative rel
PathJoin(base, rel) == base \o rel

AudioUrl(job_id) == <<"/", "static/", "audio/", JobIdStr(job_id), ".mp3">>

\* a bug: another extension than the file saved
ThumbUrlPng(job_id) == <<"/", "static/", "thumbnails/", JobIdStr(job_id), ".png">>

ThumbUrl(job_id) == <<"/", "static/", "thumbnails/", JobIdStr(job_id), ".jpg">>

YoutubeUrl(vid) == <<"https://www.youtube.com/watch?v=", vid>>

\* ---- POST /api/generate ----
ClampDuration(duration) == Max(30, Min(Int_(Or(duration, Some(120))), 900))

Title(niche) == niche \o <<": Rahasia Yang Jarang Dibahas">>

Outline(niche) ==
    << <<"Hook pembuka yang memikat">>,
       <<"Penjelasan inti tentang ">> \o niche,
       <<"Ringkasan & CTA subscribe">> >>

\* a bug: the script parts are dropped
ScriptEmpty(niche, style) == <<>>

Script(niche, style) ==
    <<"[HOOK] Bayangin kalau kamu bisa memahami ">> \o niche
      \o <<"\n\n", "[INTRO] Halo! Di video ini kita bahas ">> \o niche
      \o <<" dengan gaya ">> \o style
      \o <<"\n\n", "[OUTRO] Thanks sudah nonton!">>

\* the job generate_content builds from its payload
NewJob(niche_in, style_in, duration_in, keywords_in) ==
    LET niche == Strip(niche_in)
        style == Or(style_in, <<"educational">>)
        duration == ClampDuration(duration_in)
    IN  VideoJob(niche, Title(niche), Or(keywords_in, <<>>), style,
                 duration, Outline(niche), Script(niche, style),
                 "generated")

generate_content(niche_in, style_in, duration_in, keywords_in) ==
    LET niche == Strip(niche_in)
        job == NewJob(niche_in, style_in, duration_in, keywords_in)
    IN  /\ req' = [op |-> "generate", niche |-> niche_in, style |-> style_in,
                   duration |-> duration_in, keywords |-> keywords_in]
        /\ calls' = <<>>
        /\ IF niche = <<>>
           THEN /\ resp' = [code |-> 400,
                            body |-> [detail |-> <<"Niche/topic is required">>]]
                /\ UNCHANGED store
           ELSE /\ Cardinality(DOMAIN store) < MaxJobs
                /\ store' = create_document(store, job)
                /\ resp' = [code |-> 200,
                            body |-> [id |-> new_id(store), job |-> job]]

\* ---- GET /api/jobs ----
\* limit: int = 20
DefaultLimit == 20
\* the largest page
ListCap == 100
\* sort=[("_id", -1)]
Descending == -1

\* min(limit, 100)
ListLimit(limit) == Min(limit, ListCap)

list_jobs(limit_in) ==
    LET limit == IF limit_in = None THEN DefaultLimit ELSE limit_in[2]
    IN  \E k \in LimitCounts(store, ListLimit(limit)) :
          LET docs == get_documents(store, Descending, k)
              items == [i \in 1..Len(docs) |->
                           [docs[i] EXCEPT !["_id"] = JobIdStr(@)]]
          IN  /\ req' = [op |-> "list", limit |-> limit]
              /\ resp' = [code |-> 200, body |-> [items |-> items]]
              /\ calls' = <<>>
              /\ UNCHANGED store

NoReq == [op |-> "none"]
NoResp == [code |-> 0, body |-> [detail |-> <<>>]]

HTTPException(status_code, detail) ==
    [code |-> status_code, body |-> [detail |-> detail]]

Ok(body) == [code |-> 200, body |-> body]

\* a call of an external service and whether it returned (ok) or raised
Call(name, ok) == [name |-> name, ok |-> ok]

\* ---- POST /api/tts ----
\* a bug: the step resets the status
TtsUpdateResetsStatus(rel_url) == [audio_url |-> rel_url, status |-> "generated"]

\* a bug: the step writes the thumbnail reference too, as unset
TtsUpdateClearsThumbnail(rel_url) ==
    [audio_url |-> rel_url, status |-> "tts_ready", thumbnail_url |-> None]

TtsUpdate(rel_url) == [audio_url |-> rel_url, status |-> "tts_ready"]

\* a bug: the audio reference is written before the audio is saved
TtsCommitPartial(db, job_id, tts_ok) ==
    update_document(db, job_id,
        IF tts_ok THEN TtsUpdate(AudioUrl(job_id))
        ELSE [audio_url |-> AudioUrl(job_id)])

\* the try block: save the audio, then write the job; an exception writes nothing
TtsCommit(db, job_id, tts_ok) ==
    IF tts_ok THEN update_document(db, job_id, TtsUpdate(AudioUrl(job_id))) ELSE db

TtsResponse(job_id, tts_ok) ==
    IF tts_ok THEN Ok(TtsUpdate(AudioUrl(job_id)))
    ELSE HTTPException(500, <<"TTS failed: ", "tts error">>)

generate_tts(job_id, tts_ok) ==
    LET job == get_document_by_id(store, job_id)
        script == Or(job.script, <<>>)
    IN  /\ req' = [op |-> "tts", job_id |-> job_id]
        /\ IF job = NoDoc
           THEN /\ resp' = HTTPException(404, <<"Job not found">>)
                /\ calls' = <<>>
                /\ UNCHANGED store
           ELSE IF Strip(script) = <<>>
           THEN /\ resp' = HTTPException(400, <<"Script is empty for this job">>)
                /\ calls' = <<>>
                /\ UNCHANGED store
           ELSE /\ calls' = <<Call("tts.save", tts_ok)>>
                /\ store' = TtsCommit(store, job_id, tts_ok)
                /\ resp' = TtsResponse(job_id, tts_ok)

\* ---- POST /api/thumbnail ----
\* a bug: the status is written without the thumbnail reference
ThumbUpdateStatusOnly(rel_url) == [status |-> "thumb_ready"]

\* a bug: a new thumbnail resets the upload state of the job
ThumbUpdateResetsUpload(rel_url) ==
    [thumbnail_url |-> rel_url, status |-> "thumb_ready", upload_status |-> None]

ThumbUpdate(rel_url) == [thumbnail_url |-> rel_url, status |-> "thumb_ready"]

\* the try block: draw and save the image, then write the job
ThumbCommit(db, job_id, img_ok) ==
    IF img_ok THEN update_document(db, job_id, ThumbUpdate(ThumbUrl(job_id))) ELSE db

ThumbResponse(job_id, img_ok) ==
    IF img_ok THEN Ok(ThumbUpdate(ThumbUrl(job_id)))
    ELSE HTTPException(500, <<"Thumbnail failed: ", "image error">>)

generate_thumbnail(job_id, img_ok) ==
    LET job == get_document_by_id(store, job_id)
    IN  /\ req' = [op |-> "thumbnail", job_id |-> job_id]
        /\ IF job = NoDoc
           THEN /\ resp' = HTTPException(404, <<"Job not found">>)
                /\ calls' = <<>>
                /\ UNCHANGED store
           ELSE /\ calls' = <<Call("img.save", img_ok)>>
                /\ store' = ThumbCommit(store, job_id, img_ok)
                /\ resp' = ThumbResponse(job_id, img_ok)

\* ---- POST /api/upload ----
\* a bug: only the empty string counts as missing
AudioMissingOnlyEmpty(audio_url) == audio_url = <<>>

\* if not audio_url
AudioMissing(audio_url) == ~Truthy(audio_url)

\* a bug: the soft stop clears the published URL
CredsMissingUpdateClearsUrl ==
    [upload_status |-> <<"requires_credentials">>, youtube_url |-> None]

CredsMissingUpdate == [upload_status |-> <<"requires_credentials">>]

\* str(e)[:120] of the exceptions the render and upload steps meet; each is
\* shorter than 120 characters
ThumbRequired ==
    <<"Thumbnail image required to produce a video. Generate thumbnail first.">>
RenderError == <<"render error">>
InsertError == <<"insert error">>
ThumbnailSetError == <<"thumbnail set error">>

\* a bug: a failed render clears the published URL
RenderFailedUpdateClearsUrl(e) ==
    [upload_status |-> <<"render_failed: ">> \o e, youtube_url |-> None]

RenderFailedUpdate(e) == [upload_status |-> <<"render_failed: ">> \o e]

\* a bug: the upload advances the status as well
UploadedUpdateSetsStatus(url) ==
    [youtube_url |-> url, upload_status |-> <<"uploaded">>, status |-> "uploaded"]

UploadedUpdate(url) == [youtube_url |-> url, upload_status |-> <<"uploaded">>]

UploadFailedUpdate(e) == [upload_status |-> <<"upload_failed: ">> \o e]

\* a bug: the thumbnail is not required, the audio alone is rendered
RenderNoThumbCheck(audio_path, thumb_path, render_res) ==
    IF audio_path = None \/ render_res # "ok"
    THEN [calls |-> <<Call("write_videofile", FALSE)>>, exc |-> RenderError]
    ELSE [calls |-> <<Call("write_videofile", TRUE)>>, exc |-> None]

\* a bug: a missing thumbnail is not told from a failed render
RenderThumbAsRenderError(audio_path, thumb_path, render_res) ==
    IF ~Truthy(thumb_path) \/ audio_path = None \/ render_res # "ok"
    THEN [calls |-> <<Call("write_videofile", FALSE)>>, exc |-> RenderError]
    ELSE [calls |-> <<Call("write_videofile", TRUE)>>, exc |-> None]

\* the try block of the video assembly: the calls made and the exception
\* raised (None when the video file was written)
Render(audio_path, thumb_path, render_res) ==
    IF ~Truthy(thumb_path)
    THEN [calls |-> <<>>, exc |-> ThumbRequired]
    ELSE IF audio_path = None \/ render_res # "ok"
    THEN [calls |-> <<Call("write_videofile", FALSE)>>, exc |-> RenderError]
    ELSE [calls |-> <<Call("write_videofile", TRUE)>>, exc |-> None]

\* the try block of the upload: videos().insert, then thumbnails().set when
\* there is a thumbnail path
Upload(thumb_path, upload_res) ==
    IF upload_res = "insert_error"
    THEN [calls |-> <<Call("videos.insert", FALSE)>>, exc |-> InsertError]
    ELSE IF Truthy(thumb_path)
    THEN IF upload_res = "thumbnail_set_error"
         THEN [calls |-> <<Call("videos.insert", TRUE),
                           Call("thumbnails.set", FALSE)>>,
               exc |-> ThumbnailSetError]
         ELSE [calls |-> <<Call("videos.insert", TRUE),
                           Call("thumbnails.set", TRUE)>>,
               exc |-> None]
    ELSE [calls |-> <<Call("videos.insert", TRUE)>>, exc |-> None]

\* a bug: a render failure raised like an upload failure
RenderFailedRaises(e) == HTTPException(500, <<"Render failed: ">> \o e)

\* the response to a render failure
RenderFailedResponse(e) == Ok([status |-> "render_failed", detail |-> e])

\* a bug: an upload failure reported as data like a render failure
UploadFailedAsData(e) == Ok([status |-> "upload_failed", detail |-> e])

\* the response to an upload failure
UploadFailedResponse(e) == HTTPException(500, <<"Upload failed: ">> \o e)

\* a bug: the upload waits for the status thumb_ready
UploadOutcomeGatedByStatus(db, job_id, creds, render_res, upload_res, vid) ==
    [store |-> db,
     resp  |-> IF job_id \in DOMAIN db /\ db[job_id].status = "thumb_ready"
               THEN Ok([status |-> "requires_credentials"])
               ELSE HTTPException(400, <<"Job is not ready">>),
     calls |-> <<>>]

\* the handler on the collection db: the collection it leaves, its response
\* and the calls it made
UploadOutcome(db, job_id, creds, render_res, upload_res, vid) ==
    LET job == get_document_by_id(db, job_id)
        audio_url == job.audio_url
        thumb_url == job.thumbnail_url
        audio_path == IF StartsWithStatic(audio_url)
                      THEN PathJoin(BASE_DIR, LStripSlash(audio_url)) ELSE None
        thumb_path == IF Truthy(thumb_url) /\ StartsWithStatic(thumb_url)
                      THEN PathJoin(BASE_DIR, LStripSlash(thumb_url)) ELSE None
        rendered == Render(audio_path, thumb_path, render_res)
        uploaded == Upload(thumb_path, upload_res)
        url == YoutubeUrl(vid)
    IN  IF job = NoDoc
        THEN [store |-> db,
              resp  |-> HTTPException(404, <<"Job not found">>),
              calls |-> <<>>]
        ELSE IF AudioMissing(audio_url)
        THEN [store |-> db,
              resp  |-> HTTPException(400,
                            <<"Audio not found. Generate TTS first.">>),
              calls |-> <<>>]
        ELSE IF ~creds
        THEN [store |-> update_document(db, job_id, CredsMissingUpdate),
              resp  |-> Ok([status |-> "requires_credentials"]),
              calls |-> <<>>]
        ELSE IF rendered.exc # None
        THEN [store |-> update_document(db, job_id,
                                        RenderFailedUpdate(rendered.exc)),
              resp  |-> RenderFailedResponse(rendered.exc),
              calls |-> rendered.calls]
        ELSE IF uploaded.exc = None
        THEN [store |-> update_document(db, job_id, UploadedUpdate(url)),
              resp  |-> Ok([status |-> "uploaded", youtube_url |-> url]),
              calls |-> rendered.calls \o uploaded.calls]
        ELSE [store |-> update_document(db, job_id,
                                        UploadFailedUpdate(uploaded.exc)),
              resp  |-> UploadFailedResponse(uploaded.exc),
              calls |-> rendered.calls \o uploaded.calls]

upload_youtube(job_id, creds, render_res, upload_res, vid) ==
    LET out == UploadOutcome(store, job_id, creds, render_res, upload_res, vid)
    IN  /\ req' = [op |-> "upload", job_id |-> job_id, creds |-> creds]
        /\ store' = out.store
        /\ resp' = out.resp
        /\ calls' = out.calls

Init ==
    /\ store = << >>
    /\ req = NoReq
    /\ resp = NoResp
    /\ calls = <<>>
    /\ pending = {}

\* the requests of the lifecycle, each handled from start to end
Generate ==
    /\ \E n \in LifecycleNiches, s \in LifecycleStyles,
          d \in LifecycleDurations, k \in LifecycleKeywords :
           generate_content(n, s, d, k)
    /\ UNCHANGED pending

Tts ==
    /\ \E j \in ReqIds, ok \in BOOLEAN : generate_tts(j, ok)
    /\ UNCHANGED pending

Thumbnail ==
    /\ \E j \in ReqIds, ok \in BOOLEAN : generate_thumbnail(j, ok)
    /\ UNCHANGED pending

\* the environments of an upload request that the handler can tell apart:
\* what it does not get to ask is fixed
UploadEnvs ==
    { e \in [creds : BOOLEAN, render : RenderResults,
             upload : UploadResults, vid : VideoIds] :
        /\ ~e.creds => e.render = "ok"
        /\ e.render # "ok" => e.upload = "ok"
        /\ e.upload # "ok" => e.vid = "vidA" }

UploadStep ==
    /\ \E j \in ReqIds, e \in UploadEnvs :
           upload_youtube(j, e.creds, e.render, e.upload, e.vid)
    /\ UNCHANGED pending

Next == Generate \/ Tts \/ Thumbnail \/ UploadStep

Spec == Init /\ [][Next]_vars

\* generate alone, over every input of the request
GenerateAny ==
    /\ \E n \in Niches, s \in Styles, d \in Durations, k \in KeywordInputs :
           generate_content(n, s, d, k)
    /\ UNCHANGED pending

NextGen == GenerateAny

SpecGen == Init /\ [][NextGen]_vars

\* ---- the steps on a job that is already in the collection ----
\* The collection is shared with every other writer of the database: a stored
\* job is any document of the VideoJob schema, whose status and script are
\* free strings (script defaults to "") and whose URLs are optional strings.
StoredStatuses == { "generated", "tts_ready", "thumb_ready", "uploaded" }
StoredScripts == { <<>>, <<" ">>, Script(<<"ai">>, <<"educational">>) }
StoredAudioUrls == { None, AudioUrl(1), <<"https://cdn.example/", "a.mp3">> }
StoredThumbUrls == { None, ThumbUrl(1) }

StoredJob(status, script, audio_url, thumbnail_url) ==
    [NewJob(<<"ai">>, None, None, None) EXCEPT
        !.status = status, !.script = script,
        !.audio_url = audio_url, !.thumbnail_url = thumbnail_url]

InitStored ==
    /\ \E st \in StoredStatuses, sc \in StoredScripts,
          au \in StoredAudioUrls, th \in StoredThumbUrls :
           store = create_document(<< >>, StoredJob(st, sc, au, th))
    /\ req = NoReq
    /\ resp = NoResp
    /\ calls = <<>>
    /\ pending = {}

NextStored == Tts \/ Thumbnail \/ UploadStep

SpecStored == InitStored /\ [][NextStored]_vars

\* ---- listing a collection of generated jobs ----
\* the collection after n calls of generate: the ids are 1..n
Created(n) == [oid \in 1..n |-> NewJob(<<"ai">>, None, None, None)]

InitList ==
    /\ \E n \in 0..MaxStored : store = Created(n)
    /\ req = NoReq
    /\ resp = NoResp
    /\ calls = <<>>
    /\ pending = {}

List ==
    /\ \E l \in Limits : list_jobs(l)
    /\ UNCHANGED pending

NextList == List

SpecList == InitList /\ [][NextList]_vars

\* ---- requests served concurrently ----
\* The handlers are synchronous functions that the server runs on worker
\* threads: between the read of the job and the write of a handler, the
\* steps of another request can take place. pending holds the handlers that
\* have read their job and not yet written, each with the job it has read;
\* at most one request of a kind is in flight for a job.
IsInFlight(op, job_id) == \E p \in pending : p.op = op /\ p.job_id = job_id

\* generate_tts up to the try block: the read and the two checks
read_tts(job_id) ==
    LET job == get_document_by_id(store, job_id)
        script == Or(job.script, <<>>)
    IN  /\ ~IsInFlight("tts", job_id)
        /\ UNCHANGED store
        /\ IF job = NoDoc
           THEN /\ req' = [op |-> "tts", job_id |-> job_id]
                /\ resp' = HTTPException(404, <<"Job not found">>)
                /\ calls' = <<>>
                /\ UNCHANGED pending
           ELSE IF Strip(script) = <<>>
           THEN /\ req' = [op |-> "tts", job_id |-> job_id]
                /\ resp' = HTTPException(400, <<"Script is empty for this job">>)
                /\ calls' = <<>>
                /\ UNCHANGED pending
           ELSE /\ pending' = pending \cup {[op |-> "tts", job_id |-> job_id, job |-> job]}
                /\ UNCHANGED <<req, resp, calls>>

\* the try block of generate_tts, on the store as it is by then
write_tts(p, tts_ok) ==
    /\ p.op = "tts"
    /\ pending' = pending \ {p}
    /\ req' = [op |-> "tts", job_id |-> p.job_id, job |-> p.job]
    /\ calls' = <<Call("tts.save", tts_ok)>>
    /\ store' = TtsCommit(store, p.job_id, tts_ok)
    /\ resp' = TtsResponse(p.job_id, tts_ok)

\* generate_thumbnail up to the try block
read_thumbnail(job_id) ==
    LET job == get_document_by_id(store, job_id)
    IN  /\ ~IsInFlight("thumbnail", job_id)
        /\ UNCHANGED store
        /\ IF job = NoDoc
           THEN /\ req' = [op |-> "thumbnail", job_id |-> job_id]
                /\ resp' = HTTPException(404, <<"Job not found">>)
                /\ calls' = <<>>
                /\ UNCHANGED pending
           ELSE /\ pending' = pending \cup {[op |-> "thumbnail", job_id |-> job_id, job |-> job]}
                /\ UNCHANGED <<req, resp, calls>>

\* the try block of generate_thumbnail, on the store as it is by then
write_thumbnail(p, img_ok) ==
    /\ p.op = "thumbnail"
    /\ pending' = pending \ {p}
    /\ req' = [op |-> "thumbnail", job_id |-> p.job_id, job |-> p.job]
    /\ calls' = <<Call("img.save", img_ok)>>
    /\ store' = ThumbCommit(store, p.job_id, img_ok)
    /\ resp' = ThumbResponse(p.job_id, img_ok)

\* one generated job is in the collection
InitConc ==
    /\ store = create_document(<< >>, NewJob(<<"ai">>, None, None, None))
    /\ req = NoReq
    /\ resp = NoResp
    /\ calls = <<>>
    /\ pending = {}

ReadTts == \E j \in ReqIds : read_tts(j)
WriteTts == \E p \in pending, ok \in BOOLEAN : write_tts(p, ok)
ReadThumbnail == \E j \in ReqIds : read_thumbnail(j)
WriteThumbnail == \E p \in pending, ok \in BOOLEAN : write_thumbnail(p, ok)

NextConc == ReadTts \/ WriteTts \/ ReadThumbnail \/ WriteThumbnail

SpecConc == InitConc /\ [][NextConc]_vars

(***************************************************************************)
(* Properties of the job lifecycle.                                        *)
(***************************************************************************)
Jobs == DOMAIN store

\* the job the last request named, when it exists
Target == req.job_id

IsSet(x) == x # None /\ x # <<>>

\* the step changed at most the fields fs of job j, and no other job
OnlyChanged(j, fs) ==
    /\ DOMAIN store' = DOMAIN store
    /\ \A k \in DOMAIN store : k # j => store'[k] = store[k]
    /\ \A f \in DOMAIN store[j] \ fs : store'[j][f] = store[j][f]

StatusRank(st) ==
    CASE st = "generated" -> 0
      [] st = "tts_ready" -> 1
      [] st = "thumb_ready" -> 2
      [] st = "uploaded" -> 3
      [] OTHER -> -1

\* C1 (as stated): no operation stores a status earlier in the order
\* generated -> tts_ready -> thumb_ready -> uploaded than the stored one.
C1_StatusNeverMovesBackwards ==
    [][\A j \in Jobs : StatusRank(store'[j].status) >= StatusRank(store[j].status)]_vars

\* C1 (amended): the only step that stores an earlier status is a successful
\* Voice-Over Step on a job whose status is thumb_ready, which stores
\* tts_ready; no other operation moves the status backwards.
C1_StatusBackwardsOnlyByTts ==
    [][\A j \in Jobs :
         \/ StatusRank(store'[j].status) >= StatusRank(store[j].status)
         \/ /\ store[j].status = "thumb_ready"
            /\ store'[j].status = "tts_ready"
            /\ req'.op = "tts" /\ req'.job_id = j /\ resp'.code = 200]_vars

\* a Voice-Over Step has succeeded on a job that had its thumbnail
C1_Witness ==
    /\ req.op = "tts" /\ resp.code = 200
    /\ store[Target].status = "tts_ready"
    /\ IsSet(store[Target].thumbnail_url)

\* an upload request, with credentials, for a job with audio and no thumbnail
UploadWithoutThumbnail ==
    /\ req.op = "upload" /\ req.creds
    /\ Target \in Jobs
    /\ IsSet(store[Target].audio_url)
    /\ ~IsSet(store[Target].thumbnail_url)

ArtifactCallFailed(cs) ==
    /\ cs # <<>>
    /\ cs[1].name \in {"tts.save", "img.save"}
    /\ ~cs[1].ok

\* C3: when the TTS or the image service fails, the Voice-Over / Thumbnail
\* Step answers HTTP 500 and the store is what it was before the step.
C3_ArtifactFailureCommitsNothing ==
    [][ArtifactCallFailed(calls') => (resp'.code = 500 /\ store' = store)]_vars

\* the TTS service has failed on a job that the Thumbnail Step had advanced
C3_Witness ==
    /\ req.op = "tts" /\ ArtifactCallFailed(calls) /\ resp.code = 500
    /\ store[Target].status = "thumb_ready"
    /\ ~IsSet(store[Target].audio_url)

\* C4: the Upload Step on a job with audio and without credentials returns
\* the normal result requires_credentials, persists upload_status =
\* requires_credentials, calls neither render nor upload and writes no other
\* field (youtube_url stays what it was).
C4_NoCredentialsIsSoftStop ==
    [][(/\ req'.op = "upload" /\ ~req'.creds
        /\ req'.job_id \in Jobs
        /\ IsSet(store[req'.job_id].audio_url))
       => /\ resp' = [code |-> 200, body |-> [status |-> "requires_credentials"]]
          /\ calls' = <<>>
          /\ store'[req'.job_id].upload_status = <<"requires_credentials">>
          /\ OnlyChanged(req'.job_id, {"upload_status"})]_vars

C4_Witness ==
    /\ req.op = "upload" /\ ~req.creds /\ resp.code = 200
    /\ store[Target].upload_status = <<"requires_credentials">>
    /\ store[Target].youtube_url = None

\* C5: the Upload Step on a job without audio fails with HTTP 400, with or
\* without credentials and whatever the status, calls nothing and changes
\* nothing.
C5_NoAudioIsValidationError ==
    [][(/\ req'.op = "upload"
        /\ req'.job_id \in Jobs
        /\ ~IsSet(store[req'.job_id].audio_url))
       => (resp'.code = 400 /\ calls' = <<>> /\ store' = store)]_vars

C5_Witness ==
    /\ req.op = "upload" /\ req.creds /\ resp.code = 400
    /\ store[Target].status = "thumb_ready"

\* C6: a job recorded as uploaded (upload_status = uploaded, or youtube_url
\* set) has audio_url and thumbnail_url set, whatever its status.
C6_UploadedHasBothArtifacts ==
    \A j \in Jobs :
        (store[j].upload_status = <<"uploaded">> \/ IsSet(store[j].youtube_url))
        => (IsSet(store[j].audio_url) /\ IsSet(store[j].thumbnail_url))

C6_Witness ==
    \E j \in Jobs :
        /\ store[j].upload_status = <<"uploaded">>
        /\ IsSet(store[j].youtube_url)
        /\ store[j].status = "tts_ready"

\* the render succeeded and a call of the upload service failed
UploadCallFailed(cs) ==
    /\ cs # <<>>
    /\ cs[1] = [name |-> "write_videofile", ok |-> TRUE]
    /\ \E i \in 2..Len(cs) :
          cs[i].name \in {"videos.insert", "thumbnails.set"} /\ ~cs[i].ok

\* C7: when the render succeeds and the upload service fails, the Upload Step
\* persists upload_status = "upload_failed: <detail>", answers HTTP 500 and
\* writes no other field (not youtube_url).
C7_UploadFailureIsPersistedAndRaised ==
    [][UploadCallFailed(calls')
       => /\ req'.op = "upload"
          /\ resp'.code = 500
          /\ Len(store'[req'.job_id].upload_status) = 2
          /\ store'[req'.job_id].upload_status[1] = "upload_failed: "
          /\ OnlyChanged(req'.job_id, {"upload_status"})]_vars

C7_Witness ==
    /\ UploadCallFailed(calls) /\ resp.code = 500
    /\ store[Target].upload_status = <<"upload_failed: ", "insert error">>
    /\ store[Target].youtube_url = None

\* the render service was called and failed
RenderCallFailed(cs) ==
    cs # <<>> /\ cs[1] = [name |-> "write_videofile", ok |-> FALSE]

\* C8: with credentials, when the render service fails the Upload Step
\* persists upload_status = "render_failed: <detail>", returns the normal
\* result status = render_failed, does not call the upload service and writes
\* no other field (not youtube_url).
C8_RenderFailureIsReportedAsData ==
    [][RenderCallFailed(calls')
       => /\ req'.op = "upload" /\ req'.creds
          /\ Len(calls') = 1
          /\ resp'.code = 200
          /\ resp'.body.status = "render_failed"
          /\ Len(store'[req'.job_id].upload_status) = 2
          /\ store'[req'.job_id].upload_status[1] = "render_failed: "
          /\ OnlyChanged(req'.job_id, {"upload_status"})]_vars

C8_Witness ==
    /\ RenderCallFailed(calls) /\ resp.code = 200
    /\ store[Target].upload_status = <<"render_failed: ", "render error">>
    /\ store[Target].youtube_url = None

\* C9 (as stated): for every integer duration given to generate, the stored
\* duration is max(30, min(duration, 900)).
C9_StoredDurationIsClamped ==
    (req.op = "generate" /\ resp.code = 200 /\ req.duration # None)
    => LET d == req.duration[2]
           clamped == IF d > 900 THEN 900 ELSE IF d < 30 THEN 30 ELSE d
       IN  /\ resp.body.job.duration = clamped
           /\ store[resp.body.id].duration = clamped

\* C10: a successful Voice-Over or Thumbnail Step that follows a successful
\* run of the same step on the same job changes nothing, and audio_url is
\* only ever /static/audio/{job_id}.mp3, thumbnail_url only ever
\* /static/thumbnails/{job_id}.jpg.
C10_ArtifactStepsAreIdempotent ==
    /\ [][(/\ req.op \in {"tts", "thumbnail"} /\ resp.code = 200
            /\ req'.op = req.op /\ req'.job_id = req.job_id
            /\ resp'.code = 200)
           => store' = store]_vars
    /\ [](\A j \in Jobs :
            /\ store[j].audio_url \in
                  {None, <<"/", "static/", "audio/", ToString(j), ".mp3">>}
            /\ store[j].thumbnail_url \in
                  {None, <<"/", "static/", "thumbnails/", ToString(j), ".jpg">>})

\* a Thumbnail Step has succeeded again: the upload before it had found the
\* thumbnail of an earlier run
C10_Witness ==
    /\ req.op = "thumbnail" /\ resp.code = 200
    /\ store[Target].upload_status = <<"uploaded">>
    /\ store[Target].thumbnail_url =
          <<"/", "static/", "thumbnails/", ToString(Target), ".jpg">>

\* a text that is empty once stripped
IsBlank(s) == \A i \in 1..Len(s) : s[i] = " "

\* C11: the Voice-Over Step answers 404 for an unknown job id and, for a job
\* whose script is empty after trimming, 400, and in both cases leaves the
\* collection as it was; when it succeeds the job has status tts_ready and an
\* audio_url that is set and ends in .mp3.
C11_TtsPreconditionsAndSuccess ==
    [][req'.op = "tts"
       => /\ req'.job_id \notin Jobs => (resp'.code = 404 /\ store' = store)
          /\ (req'.job_id \in Jobs /\ IsBlank(store[req'.job_id].script))
               => (resp'.code = 400 /\ store' = store)
          /\ resp'.code = 200
               => LET job == store'[req'.job_id]
                  IN  /\ job.status = "tts_ready"
                      /\ IsSet(job.audio_url)
                      /\ job.audio_url[Len(job.audio_url)] = ".mp3"
                      /\ resp'.body.audio_url = job.audio_url]_vars

\* the step has refused a job whose script is white space
C11_Witness ==
    /\ req.op = "tts" /\ resp.code = 400
    /\ Target \in Jobs
    /\ store[Target].script = <<" ">>
    /\ store[Target].audio_url = None

\* the upload of job j of collection db in environment e
UploadOf(db, j, e) == UploadOutcome(db, j, e.creds, e.render, e.upload, e.vid)

\* C14: the Upload Step does not read the status: on two collections that
\* differ only in the status of the job, in the same environment, it gives
\* the same response, makes the same calls and writes the same fields.
C14_UploadIgnoresStatus ==
    \A j \in Jobs, st \in StoredStatuses, e \in UploadEnvs :
        LET other == [store EXCEPT ![j].status = st]
            a == UploadOf(store, j, e)
            b == UploadOf(other, j, e)
        IN  /\ a.resp = b.resp
            /\ a.calls = b.calls
            /\ b.store = [a.store EXCEPT ![j].status = st]

\* a job whose status is still generated has been uploaded
C14_Witness ==
    /\ req.op = "upload" /\ resp.code = 200
    /\ resp.body.status = "uploaded"
    /\ store[Target].status = "generated"
    /\ store[Target].upload_status = <<"uploaded">>

\* the fields the steps set
StepFields == {"audio_url", "thumbnail_url", "youtube_url", "upload_status"}

\* C12: once audio_url, thumbnail_url, youtube_url or upload_status of a job
\* is set, it is set in every later state (a step may overwrite it with
\* another value, never unset it), also after failed or soft-stopped steps.
C12_SetFieldsStaySet ==
    [][\A j \in Jobs, f \in StepFields :
         IsSet(store[j][f]) => (j \in DOMAIN store' /\ IsSet(store'[j][f]))]_vars

\* a render has failed on a job that had been uploaded
C12_Witness ==
    /\ req.op = "upload" /\ resp.code = 200
    /\ resp.body.status = "render_failed"
    /\ store[Target].upload_status = <<"render_failed: ", "render error">>
    /\ IsSet(store[Target].youtube_url)

\* the video was rendered and uploaded, and setting its thumbnail failed
ThumbnailSetFailed(cs) ==
    cs = << [name |-> "write_videofile", ok |-> TRUE],
            [name |-> "videos.insert", ok |-> TRUE],
            [name |-> "thumbnails.set", ok |-> FALSE] >>

\* C17 (as stated): when the video upload succeeds and setting the remote
\* thumbnail fails, the step still persists youtube_url and upload_status =
\* uploaded and returns status uploaded.
C17_ThumbnailSetFailureKeepsSuccess ==
    ThumbnailSetFailed(calls)
    => /\ resp.code = 200
       /\ resp.body.status = "uploaded"
       /\ store[Target].upload_status = <<"uploaded">>
       /\ IsSet(store[Target].youtube_url)

\* C18: the Upload Step leaves the status of every job as it is, whatever
\* its outcome, and the status of a job is always one of generated,
\* tts_ready, thumb_ready.
C18_UploadNeverWritesStatus ==
    /\ [][req'.op = "upload"
           => \A j \in Jobs : j \in DOMAIN store' /\ store'[j].status = store[j].status]_vars
    /\ [](\A j \in Jobs :
            store[j].status \in {"generated", "tts_ready", "thumb_ready"})

\* a job has been uploaded and its status is still that of the thumbnail step
C18_Witness ==
    /\ req.op = "upload" /\ resp.code = 200
    /\ resp.body.status = "uploaded"
    /\ store[Target].upload_status = <<"uploaded">>
    /\ store[Target].status = "thumb_ready"

\* C20: a successful Voice-Over Step changes audio_url and status of its job
\* and nothing else, a successful Thumbnail Step thumbnail_url and status of
\* its job and nothing else: the other URL, youtube_url, upload_status and
\* every other job are as before.
C20_ArtifactStepsWriteOwnFields ==
    [][/\ (req'.op = "tts" /\ resp'.code = 200)
            => OnlyChanged(req'.job_id, {"audio_url", "status"})
       /\ (req'.op = "thumbnail" /\ resp'.code = 200)
            => OnlyChanged(req'.job_id, {"thumbnail_url", "status"})]_vars

\* a thumbnail has been made again for an uploaded job, beside another job
\* with an upload state of its own
C20_Witness ==
    /\ req.op = "thumbnail" /\ resp.code = 200
    /\ store[Target].upload_status = <<"uploaded">>
    /\ IsSet(store[Target].youtube_url)
    /\ IsSet(store[Target].audio_url)
    /\ \E k \in Jobs \ {Target} : IsSet(store[k].upload_status)

\* C15: generate with a niche that is empty once trimmed answers 400 and
\* stores nothing; with any other niche it stores exactly one new job, whose
\* status is generated, whose script is non-empty and whose audio_url,
\* thumbnail_url, youtube_url and upload_status are unset, and leaves the
\* jobs already stored as they are.
C15_GenerateValidatesAndCreatesOne ==
    [][req'.op = "generate"
       => IF IsBlank(req'.niche)
          THEN resp'.code = 400 /\ store' = store
          ELSE /\ resp'.code = 200
               /\ Cardinality(DOMAIN store') = Cardinality(DOMAIN store) + 1
               /\ \A j \in DOMAIN store : j \in DOMAIN store' /\ store'[j] = store[j]
               /\ \A n \in DOMAIN store' \ DOMAIN store :
                     /\ n = resp'.body.id
                     /\ store'[n].status = "generated"
                     /\ store'[n].script # <<>>
                     /\ \A f \in StepFields : store'[n][f] = None]_vars

\* a second job has been created, from a niche given with blanks around it
C15_Witness ==
    /\ req.op = "generate" /\ resp.code = 200
    /\ req.niche = <<" ", "ai", " ">>
    /\ resp.body.id = 2 /\ DOMAIN store = {1, 2}
    /\ store[2].niche = <<"ai">>
    /\ store[2].status = "generated"

\* the write of a handler that had read its job has succeeded in this step
WriteSucceeds(op) ==
    /\ req'.op = op /\ resp'.code = 200
    /\ \E p \in pending : p.op = op /\ p.job_id = req'.job_id /\ pending' = pending \ {p}

\* C13: under every interleaving of the read and the write of a Voice-Over
\* Step with those of a Thumbnail Step on the same job, a successful write
\* sets the step's own URL and status and keeps the URL of the other step,
\* no step unsets a URL, and a job with both URLs set has the status
\* tts_ready or thumb_ready: when both steps have succeeded, both URLs are
\* set and the status is that of the last write.
C13_ConcurrentStepsKeepBothArtifacts ==
    /\ [][/\ WriteSucceeds("tts")
             => /\ store'[req'.job_id].audio_url = AudioUrl(req'.job_id)
                /\ store'[req'.job_id].status = "tts_ready"
                /\ store'[req'.job_id].thumbnail_url = store[req'.job_id].thumbnail_url
          /\ WriteSucceeds("thumbnail")
             => /\ store'[req'.job_id].thumbnail_url = ThumbUrl(req'.job_id)
                /\ store'[req'.job_id].status = "thumb_ready"
                /\ store'[req'.job_id].audio_url = store[req'.job_id].audio_url
          /\ \A j \in Jobs, f \in {"audio_url", "thumbnail_url"} :
                IsSet(store[j][f]) => IsSet(store'[j][f])]_vars
    /\ [](\A j \in Jobs :
            (IsSet(store[j].audio_url) /\ IsSet(store[j].thumbnail_url))
            => store[j].status \in {"tts_ready", "thumb_ready"})

\* the Voice-Over Step had read the job before the Thumbnail Step wrote it,
\* and has written after it: both URLs are set
C13_Witness ==
    /\ req.op = "tts" /\ resp.code = 200 /\ pending = {}
    /\ req.job.thumbnail_url = None /\ req.job.status = "generated"
    /\ IsSet(store[Target].thumbnail_url)
    /\ IsSet(store[Target].audio_url)
    /\ store[Target].status = "tts_ready"

\* C19: in every state, also with steps in flight on the same job, a job of
\* status tts_ready has its audio_url set and a job of status thumb_ready
\* has its thumbnail_url set.
C19_StatusImpliesArtifact ==
    \A j \in Jobs :
        /\ store[j].status = "tts_ready" => IsSet(store[j].audio_url)
        /\ store[j].status = "thumb_ready" => IsSet(store[j].thumbnail_url)

\* the Thumbnail Step has written last, over the write of a Voice-Over Step
\* it had not seen, while another Voice-Over Step is in flight
C19_Witness ==
    /\ req.op = "thumbnail" /\ resp.code = 200
    /\ req.job.audio_url = None
    /\ store[Target].status = "thumb_ready"
    /\ IsSet(store[Target].thumbnail_url)
    /\ IsSet(store[Target].audio_url)
    /\ IsInFlight("tts", Target)

\* the items are the n most recently created jobs, the newest first
NewestFirst(items) ==
    \A i \in 1..Len(items) :
        /\ Cardinality(Jobs) + 1 - i \in Jobs
        /\ items[i]["_id"] = ToString(Cardinality(Jobs) + 1 - i)
        /\ \A f \in DOMAIN store[Cardinality(Jobs) + 1 - i] :
              items[i][f] = store[Cardinality(Jobs) + 1 - i][f]

\* C16 (as stated): for every integer limit, list(limit) returns at most 100
\* jobs and at most limit jobs, the most recently created ones, newest first.
C16_ListAtMostLimitAndCap ==
    req.op = "list"
    => /\ Len(resp.body.items) <= 100
       /\ Len(resp.body.items) <= req.limit
       /\ NewestFirst(resp.body.items)

====
